---------------------------- MODULE Spec2Model ----------------------------
(***************************************************************************)
(* The USGS earthquake dashboard (src/app.py): the sidebar's query         *)
(* filter, build_query_params, the cached fetch, clean_earthquakes and     *)
(* the render cycle of main() over the Streamlit session state.            *)
(*                                                                         *)
(* Values.  A Python value held in a dict or in a DataFrame cell is a      *)
(* record [t, n, s, l]: None/NaN/NaT (t = "null"), a number (t = "num",    *)
(* n), a string (t = "str", s), a list (t = "list", l) or a UTC instant      *)
(* (t = "time", n seconds since the epoch, l its microseconds).  Floats    *)
(* (magnitudes, depths in km, angles in degrees) are fixed-point numbers   *)
(* counted in tenths; a datetime is [sec, usec].                           *)
(***************************************************************************)
EXTENDS Integers, Sequences, FiniteSets, TLC

VARIABLES session_state, fetch_cache, now, ticks, requests, cycle, args, ret

vars == <<session_state, fetch_cache, now, ticks, requests, cycle, args, ret>>

---------------------------------------------------------------------------
(* Python values *)

Null == [t |-> "null", n |-> 0, s |-> "", l |-> <<>>]

Num(x) == [t |-> "num", n |-> x, s |-> "", l |-> <<>>]

Str(x) == [t |-> "str", n |-> 0, s |-> x, l |-> <<>>]

List(x) == [t |-> "list", n |-> 0, s |-> "", l |-> x]

\* A Python dict: a function from its keys.  d.update(e).
DictUpdate(d, e) ==
  [k \in (DOMAIN d) \cup (DOMAIN e) |-> IF k \in DOMAIN e THEN e[k] ELSE d[k]]

\* bool(x) of a tuple or None: None is the empty sequence here.
Truthy(x) == Len(x) > 0

None == <<>>

\* An empty dict: {} and the session state of a new session.
EmptyDict == [k \in {} |-> Null]

---------------------------------------------------------------------------
(* The sidebar: lines 172-242 of src/app.py *)

SecondsPerHour == 3600

SecondsPerDay == 86400

MaxMicrosecond == 999999

\* datetime - timedelta(seconds)
MinusSeconds(dt, secs) == [sec |-> dt.sec - secs, usec |-> dt.usec]

\* datetime.date(): the day number of the instant
DateOf(dt) == dt.sec \div SecondsPerDay

\* datetime.combine(date, datetime.min.time(), tzinfo=utc)
CombineMin(date) == [sec |-> date * SecondsPerDay, usec |-> 0]

\* datetime.combine(date, datetime.max.time(), tzinfo=utc): 23:59:59.999999
CombineMax(date) ==
  [sec |-> date * SecondsPerDay + (SecondsPerDay - 1), usec |-> MaxMicrosecond]

\* strftime("%Y-%m-%dT%H:%M:%S"): second precision, the microseconds and the
\* offset are not printed.  The text is identified with the second it names.
Strftime(dt) == Num(dt.sec)

\* The time window of the selectbox (lines 177-200).  w holds the widget
\* values, now_utc the instant of this run.
TimeWindow(w, now_utc) ==
  IF w.window_label = "Past hour"
    THEN [starttime |-> MinusSeconds(now_utc, SecondsPerHour), endtime |-> now_utc]
  ELSE IF w.window_label = "Past 24 hours"
    THEN [starttime |-> MinusSeconds(now_utc, SecondsPerDay), endtime |-> now_utc]
  ELSE IF w.window_label = "Past 7 days"
    THEN [starttime |-> MinusSeconds(now_utc, 7 * SecondsPerDay), endtime |-> now_utc]
  ELSE [starttime |-> CombineMin(w.start_date), endtime |-> CombineMax(w.end_date)]

\* The region widgets (lines 210-235): bbox and circle start as None and the
\* branch of the chosen mode sets one of them.
RegionInputs(w) ==
  IF w.region_mode = "Bounding box"
    THEN [bbox |-> <<w.minlat, w.maxlat, w.minlon, w.maxlon>>, circle |-> None]
  ELSE IF w.region_mode = "Radius from point"
    THEN [bbox |-> None, circle |-> <<w.lat0, w.lon0, w.radius_km>>]
  ELSE [bbox |-> None, circle |-> None]

\* st.number_input(min_value, max_value, value) after the user entered a
\* number: an entry outside [min_value, max_value] is not accepted and the
\* widget keeps its value.
NumberInput(value, entered, min_value, max_value) ==
  IF min_value <= entered /\ entered <= max_value THEN entered ELSE value

\* The locals build_query_params and clean_earthquakes close over.
Sidebar(w, now_utc) ==
  [starttime   |-> TimeWindow(w, now_utc).starttime,
   endtime     |-> TimeWindow(w, now_utc).endtime,
   minmag      |-> w.minmag,
   maxmag      |-> w.maxmag,
   mindepth    |-> w.mindepth,
   maxdepth    |-> w.maxdepth,
   region_mode |-> w.region_mode,
   bbox        |-> RegionInputs(w).bbox,
   circle      |-> RegionInputs(w).circle,
   orderby     |-> w.orderby,
   limit       |-> w.limit]

---------------------------------------------------------------------------
(* build_query_params: lines 251-275 *)

BaseKeys ==
  {"format", "starttime", "endtime", "minmagnitude", "maxmagnitude",
   "orderby", "limit"}

BBoxKeys == {"minlatitude", "maxlatitude", "minlongitude", "maxlongitude"}

CircleKeys == {"latitude", "longitude", "maxradiuskm"}

DepthKeys == {"mindepth", "maxdepth"}

\* A conversion that caps the limit at 10000.
IntOf_capped(x) == IF x > 10000 THEN 10000 ELSE x

\* int(limit) of the number_input's value
IntOf(x) == x

\* A dict literal that spells the descending orders as the tags time-desc
\* and magnitude-desc.
BaseParams_desc(sb) ==
  [k \in BaseKeys |->
     CASE k = "format"       -> Str("geojson")
       [] k = "starttime"    -> Strftime(sb.starttime)
       [] k = "endtime"      -> Strftime(sb.endtime)
       [] k = "minmagnitude" -> Num(sb.minmag)
       [] k = "maxmagnitude" -> Num(sb.maxmag)
       [] k = "orderby"      -> IF sb.orderby \in {"time", "magnitude"}
                                  THEN Str(sb.orderby \o "-desc")
                                  ELSE Str(sb.orderby)
       [] k = "limit"        -> Num(IntOf(sb.limit))]

BaseParams(sb) ==
  [k \in BaseKeys |->
     CASE k = "format"       -> Str("geojson")
       [] k = "starttime"    -> Strftime(sb.starttime)
       [] k = "endtime"      -> Strftime(sb.endtime)
       [] k = "minmagnitude" -> Num(sb.minmag)
       [] k = "maxmagnitude" -> Num(sb.maxmag)
       [] k = "orderby"      -> Str(sb.orderby)
       [] k = "limit"        -> Num(IntOf(sb.limit))]

BBoxParams(bbox) ==
  [k \in BBoxKeys |->
     CASE k = "minlatitude"  -> Num(bbox[1])
       [] k = "maxlatitude"  -> Num(bbox[2])
       [] k = "minlongitude" -> Num(bbox[3])
       [] k = "maxlongitude" -> Num(bbox[4])]

CircleParams(circle) ==
  [k \in CircleKeys |->
     CASE k = "latitude"    -> Num(circle[1])
       [] k = "longitude"   -> Num(circle[2])
       [] k = "maxradiuskm" -> Num(circle[3])]

\* A bounding-box branch that misspells its first key.
build_query_params_typo(sb) ==
  IF sb.region_mode = "Bounding box" /\ Truthy(sb.bbox)
    THEN DictUpdate(BaseParams(sb),
                    [k \in {"latitude", "maxlatitude", "minlongitude", "maxlongitude"} |->
                       CASE k = "latitude"     -> Num(sb.bbox[1])
                         [] k = "maxlatitude"  -> Num(sb.bbox[2])
                         [] k = "minlongitude" -> Num(sb.bbox[3])
                         [] k = "maxlongitude" -> Num(sb.bbox[4])])
  ELSE IF sb.region_mode = "Radius from point" /\ Truthy(sb.circle)
    THEN DictUpdate(BaseParams(sb), CircleParams(sb.circle))
  ELSE BaseParams(sb)

\* A builder that forwards the upper depth bound once the slider has left
\* its default.
build_query_params_maxdepth(sb) ==
  LET q == IF sb.maxdepth < 7000
             THEN DictUpdate(BaseParams(sb),
                             [k \in {"maxdepth"} |-> Num(sb.maxdepth)])
             ELSE BaseParams(sb)
  IN  IF sb.region_mode = "Bounding box" /\ Truthy(sb.bbox)
        THEN DictUpdate(q, BBoxParams(sb.bbox))
      ELSE IF sb.region_mode = "Radius from point" /\ Truthy(sb.circle)
        THEN DictUpdate(q, CircleParams(sb.circle))
      ELSE q

\* A builder that also forwards the depth slider.
build_query_params_depth(sb) ==
  LET q == DictUpdate(BaseParams(sb),
                      [k \in DepthKeys |->
                         IF k = "mindepth" THEN Num(sb.mindepth) ELSE Num(sb.maxdepth)])
  IN  IF sb.region_mode = "Bounding box" /\ Truthy(sb.bbox)
        THEN DictUpdate(q, BBoxParams(sb.bbox))
      ELSE IF sb.region_mode = "Radius from point" /\ Truthy(sb.circle)
        THEN DictUpdate(q, CircleParams(sb.circle))
      ELSE q

build_query_params(sb) ==
  IF sb.region_mode = "Bounding box" /\ Truthy(sb.bbox)
    THEN DictUpdate(BaseParams(sb), BBoxParams(sb.bbox))
  ELSE IF sb.region_mode = "Radius from point" /\ Truthy(sb.circle)
    THEN DictUpdate(BaseParams(sb), CircleParams(sb.circle))
  ELSE BaseParams(sb)

---------------------------------------------------------------------------
(* DataFrames: [columns: the column labels in order, rows: a sequence of   *)
(* [index, cells: column -> value]].  A call returns [ok, error, df]:      *)
(* ok = FALSE is a raised exception, named by error.                       *)

NoTable == [columns |-> <<>>, rows |-> <<>>]

Return(df) == [ok |-> TRUE, error |-> "", df |-> df]

Raise(e) == [ok |-> FALSE, error |-> e, df |-> NoTable]

\* The elements of sequence s that satisfy Test, in order.
RECURSIVE SelectRows(_, _)
SelectRows(rows, keepIdx) ==
  IF rows = <<>> THEN <<>>
  ELSE IF Head(rows).index \in keepIdx
    THEN <<Head(rows)>> \o SelectRows(Tail(rows), keepIdx)
  ELSE SelectRows(Tail(rows), keepIdx)

\* [c for c in wanted if c in have]
RECURSIVE ListFilter(_, _)
ListFilter(wanted, have) ==
  IF wanted = <<>> THEN <<>>
  ELSE IF Head(wanted) \in have
    THEN <<Head(wanted)>> \o ListFilter(Tail(wanted), have)
  ELSE ListFilter(Tail(wanted), have)

Range(s) == {s[i] : i \in DOMAIN s}

\* df[cols]: the listed columns, in the listed order.
SelectColumns(df, cols) ==
  [columns |-> cols,
   rows    |-> [i \in DOMAIN df.rows |->
                  [index |-> df.rows[i].index,
                   cells |-> [c \in Range(cols) |-> df.rows[i].cells[c]]]]]

\* df[col] = values (values[i] for row i): a new column goes last.
SetColumn(df, col, values) ==
  [columns |-> IF col \in Range(df.columns) THEN df.columns
               ELSE Append(df.columns, col),
   rows    |-> [i \in DOMAIN df.rows |->
                  [index |-> df.rows[i].index,
                   cells |-> [c \in Range(df.columns) \cup {col} |->
                                IF c = col THEN values[i]
                                ELSE df.rows[i].cells[c]]]]]

\* df.drop(columns=[col], errors="ignore")
DropColumn(df, col) ==
  SelectColumns(df, ListFilter(df.columns, Range(df.columns) \ {col}))

\* df.rename(columns=mapping): labels not in the mapping stay.
RenameColumns(df, mapping) ==
  LET new(c) == IF c \in DOMAIN mapping THEN mapping[c] ELSE c
  IN  [columns |-> [j \in DOMAIN df.columns |-> new(df.columns[j])],
       rows    |-> [i \in DOMAIN df.rows |->
                      [index |-> df.rows[i].index,
                       cells |-> [c \in {new(d) : d \in Range(df.columns)} |->
                                    df.rows[i].cells[
                                      CHOOSE d \in Range(df.columns) : new(d) = c]]]]]

\* df[col] as a sequence of values
Column(df, col) == [i \in DOMAIN df.rows |-> df.rows[i].cells[col]]

---------------------------------------------------------------------------
(* clean_earthquakes: lines 277-325 *)

\* The columns of the empty table (lines 280-282) and the final order (323).
order ==
  <<"time", "place", "magnitude", "depth", "lat", "lon", "event_type",
    "alert_level", "url", "id">>

keep ==
  <<"id", "properties.time", "properties.place", "properties.mag",
    "properties.type", "properties.alert", "properties.url",
    "geometry.coordinates">>

renames ==
  [c \in {"properties.time", "properties.place", "properties.mag",
          "properties.type", "properties.alert", "properties.url"} |->
     CASE c = "properties.time"  -> "time_epoch_ms"
       [] c = "properties.place" -> "place"
       [] c = "properties.mag"   -> "magnitude"
       [] c = "properties.type"  -> "event_type"
       [] c = "properties.alert" -> "alert_level"
       [] c = "properties.url"   -> "url"]

\* geojson.get("features", [])
GetFeatures(geojson) ==
  IF "features" \in DOMAIN geojson THEN geojson["features"] ELSE <<>>

\* pd.json_normalize(feats): one row per record, one column per leaf path
\* that some record has, NaN where a record lacks the path.  A record is
\* given by its leaf paths ("id", "properties.mag", "geometry.coordinates").
\* The columns come in keep's order, then the others; line 295 reads only
\* which labels exist.
AllPaths == <<"type">> \o keep

json_normalize(feats) ==
  LET present == UNION {DOMAIN feats[i] : i \in DOMAIN feats}
  IN  [columns |-> ListFilter(AllPaths, present),
       rows    |-> [i \in DOMAIN feats |->
                      [index |-> i - 1,
                       cells |-> [c \in present |->
                                    IF c \in DOMAIN feats[i] THEN feats[i][c]
                                    ELSE Null]]]]

IsListLike(v) == v.t = "list"

Max(S) == CHOOSE x \in S : \A y \in S : y <= x

\* pd.DataFrame(lists, index=...): lines 298-301 read it only by .get(k).
\*   - the first element is a list: every element must have a length (a
\*     NaN among them raises TypeError); the table is as wide as the longest
\*     list and shorter lists are padded with None;
\*   - the first element is not a list: one column, 0, holding the elements.
\* The result is [ok, error, width, at]: at[i][k + 1] is row i, column k.
CoordsFrame(lists) ==
  IF IsListLike(lists[1])
    THEN IF \E i \in DOMAIN lists : ~IsListLike(lists[i])
           THEN [ok |-> FALSE, error |-> "TypeError", width |-> 0, at |-> <<>>]
         ELSE LET width == Max({Len(lists[i].l) : i \in DOMAIN lists})
              IN  [ok |-> TRUE, error |-> "", width |-> width,
                   at |-> [i \in DOMAIN lists |->
                             [k \in 1..width |->
                                IF k <= Len(lists[i].l) THEN lists[i].l[k]
                                ELSE Null]]]
  ELSE [ok |-> TRUE, error |-> "", width |-> 1,
        at |-> [i \in DOMAIN lists |-> <<lists[i]>>]]

\* coords.get(k): column k, or None when the frame has no column k;
\* df[col] = None fills the column with None.
CoordsGet(coords, k) ==
  [i \in DOMAIN coords.at |-> IF k < coords.width THEN coords.at[i][k + 1] ELSE Null]

\* float(text): the numeric texts of the payloads, in tenths.
ParseFloat(text) ==
  CASE text = "5.5" -> Num(55)
    [] text = "10"  -> Num(100)
    [] OTHER        -> Null

\* errors="ignore" in place of "coerce": what cannot be parsed is kept.
ToNumericIgnore(v) ==
  CASE v.t = "num" -> v
    [] v.t = "str" -> IF ParseFloat(v.s) = Null THEN v ELSE ParseFloat(v.s)
    [] OTHER       -> Null

\* pd.to_numeric(.., errors="coerce") on one value: a number stays, a
\* numeric text is parsed, None/NaN and everything else become NaN.
ToNumericCoerce(v) ==
  CASE v.t = "num" -> v
    [] v.t = "str" -> ParseFloat(v.s)
    [] OTHER       -> Null

\* pd.to_datetime(.., unit="ms", utc=True) on one value: the UTC instant of
\* an epoch millisecond count, NaT for None/NaN.
ToDatetimeMs(v) ==
  IF v.t = "num"
    THEN [t |-> "time", n |-> v.n \div 1000, s |-> "UTC",
          l |-> <<Num((v.n % 1000) * 1000)>>]
  ELSE Null

\* A depth post-filter with exclusive bounds.
DepthMaskExclusive(df, mindepth, maxdepth) ==
  {df.rows[i].index : i \in
     {j \in DOMAIN df.rows :
        \/ df.rows[j].cells["depth"].t = "null"
        \/ /\ df.rows[j].cells["depth"].n > mindepth
           /\ df.rows[j].cells["depth"].n < maxdepth}}

\* Line 321: the index labels of the rows that pass the depth post-filter.
DepthMask(df, mindepth, maxdepth) ==
  {df.rows[i].index : i \in
     {j \in DOMAIN df.rows :
        \/ df.rows[j].cells["depth"].t = "null"
        \/ /\ df.rows[j].cells["depth"].n >= mindepth
           /\ df.rows[j].cells["depth"].n <= maxdepth}}

\* Lines 317-318: the four numeric columns, coerced in place.
RECURSIVE CoerceColumns(_, _)
CoerceColumns(df, cols) ==
  IF cols = <<>> THEN df
  ELSE CoerceColumns(
         SetColumn(df, Head(cols),
                   [i \in DOMAIN df.rows |->
                      ToNumericCoerce(df.rows[i].cells[Head(cols)])]),
         Tail(cols))

\* A projection that keeps the columns in the order they were built.
ProjectUnordered(df) ==
  SelectColumns(df, ListFilter(df.columns, Range(order)))

\* Lines 323-324: project and reorder.
ProjectOrder(df) == SelectColumns(df, ListFilter(order, Range(df.columns)))

\* pd.DataFrame() without its columns.
EmptyTableNoColumns == [columns |-> <<>>, rows |-> <<>>]

\* Lines 279-282: the table of a payload without records.
EmptyTable == [columns |-> order, rows |-> <<>>]

clean_earthquakes(geojson, mindepth, maxdepth) ==
  LET feats == GetFeatures(geojson)
      df0   == json_normalize(feats)
      df1   == SelectColumns(df0, ListFilter(keep, Range(df0.columns)))
  IN  IF feats = <<>> THEN Return(EmptyTable)
      ELSE IF "geometry.coordinates" \notin Range(df1.columns)
        THEN Raise("KeyError")
      ELSE LET coords == CoordsFrame(Column(df1, "geometry.coordinates"))
           IN  IF ~coords.ok THEN Raise(coords.error)
               ELSE LET df2 == SetColumn(df1, "lon", CoordsGet(coords, 0))
                        df3 == SetColumn(df2, "lat", CoordsGet(coords, 1))
                        df4 == SetColumn(df3, "depth", CoordsGet(coords, 2))
                        df5 == DropColumn(df4, "geometry.coordinates")
                        df6 == RenameColumns(df5, renames)
                    IN  IF "time_epoch_ms" \notin Range(df6.columns)
                          THEN Raise("KeyError")
                        ELSE LET df7 == SetColumn(df6, "time",
                                          [i \in DOMAIN df6.rows |->
                                             ToDatetimeMs(df6.rows[i].cells["time_epoch_ms"])])
                                 df8 == DropColumn(df7, "time_epoch_ms")
                             IN  IF "magnitude" \notin Range(df8.columns)
                                   THEN Raise("KeyError")
                                 ELSE LET df9 == CoerceColumns(df8,
                                                   <<"magnitude", "depth", "lat", "lon">>)
                                          df10 == [columns |-> df9.columns,
                                                   rows |-> SelectRows(df9.rows,
                                                     DepthMask(df9, mindepth, maxdepth))]
                                      IN  Return(ProjectOrder(df10))

---------------------------------------------------------------------------
(* fetch_usgs_geojson under st.cache_data(ttl=60): lines 244-249 *)

\* ttl=60: seconds an entry of the result cache stays fresh.
TTL == 60

\* A cache whose entries never expire.
FreshEntries_nottl(cache, params, clock) ==
  {e \in cache : e.params = params}

\* The fresh entries of the result cache for these parameters.
FreshEntries(cache, params, clock) ==
  {e \in cache : e.params = params /\ clock < e.stored + TTL}

\* One call.  upstream is what requests.get/raise_for_status/json would give
\* if the request were issued: [ok, geo].  The result is [ok, geo,
\* requested, cache]: a fresh entry answers without a request; a request
\* that succeeds replaces the entry of these parameters; a raise stores
\* nothing.
fetch_usgs_geojson(cache, params, clock, upstream) ==
  IF FreshEntries(cache, params, clock) # {}
    THEN [ok |-> TRUE,
          geo |-> (CHOOSE e \in FreshEntries(cache, params, clock) : TRUE).geo,
          requested |-> FALSE, cache |-> cache]
  ELSE IF upstream.ok
    THEN [ok |-> TRUE, geo |-> upstream.geo, requested |-> TRUE,
          cache |-> {e \in cache : e.params # params}
                      \cup {[params |-> params, geo |-> upstream.geo,
                             stored |-> clock]}]
  ELSE [ok |-> FALSE, geo |-> upstream.geo, requested |-> TRUE, cache |-> cache]

---------------------------------------------------------------------------
(* Inputs *)

MaxTicks == 1

MaxRequests == 2

MaxFeatures == 2

Usecs == {0, 500000}

\* The microseconds of the session runs' instants (strftime drops them).
SessionUsecs == {500000}

DefaultWidgets ==
  [window_label |-> "Past hour", start_date |-> -1, end_date |-> 0,
   minmag |-> 0, maxmag |-> 100, mindepth |-> 0, maxdepth |-> 7000,
   region_mode |-> "Global",
   minlat |-> -600, maxlat |-> 600, minlon |-> 1000, maxlon |-> 1600,
   lat0 |-> -320, lon0 |-> 1159, radius_km |-> 5000,
   orderby |-> "time", limit |-> 20000]

RegionModes == {"Global", "Bounding box", "Radius from point"}

WindowLabels == {"Past hour", "Past 24 hours", "Past 7 days", "Custom dates"}

OrderBys == {"time", "time-asc", "magnitude", "magnitude-asc"}

DepthRanges == {<<0, 7000>>, <<0, 300>>, <<100, 500>>, <<400, 1000>>}

\* What the user types into "Max results (limit)".
LimitEntries == {0, 1, 100, 20000, 20001}

\* The limits the number_input (line 239) can hold after an entry.
LimitValues == {NumberInput(20000, e, 1, 20000) : e \in LimitEntries}

\* The widget values the sidebar can hold (sliders keep min <= max, the
\* limit stays within 1..20000).
Widgets ==
  {[DefaultWidgets EXCEPT !.window_label = wl, !.start_date = sd,
                          !.minmag = mm, !.mindepth = dr[1], !.maxdepth = dr[2],
                          !.region_mode = rm, !.minlat = ml, !.lat0 = l0,
                          !.orderby = ob, !.limit = lim] :
     wl \in WindowLabels, sd \in {-1, 0}, mm \in {0, 45}, dr \in DepthRanges,
     rm \in RegionModes, ml \in {-600, 700}, l0 \in {-320, 0}, ob \in OrderBys,
     lim \in LimitValues}

\* The widget values of the session runs: the defaults, and one selection
\* changed (time window, depth, region).
SessionWidgets ==
  {DefaultWidgets,
   [DefaultWidgets EXCEPT !.window_label = "Custom dates"],
   [DefaultWidgets EXCEPT !.mindepth = 400, !.maxdepth = 1000],
   [DefaultWidgets EXCEPT !.region_mode = "Radius from point"]}

\* Payload records, by leaf path.
FullRecord ==
  [p \in Range(AllPaths) |->
     CASE p = "type"                 -> Str("Feature")
       [] p = "id"                   -> Str("x1")
       [] p = "properties.time"      -> Num(1700123)
       [] p = "properties.place"     -> Str("Test")
       [] p = "properties.mag"       -> Num(55)
       [] p = "properties.type"      -> Str("earthquake")
       [] p = "properties.alert"     -> Null
       [] p = "properties.url"       -> Str("http://x")
       [] p = "geometry.coordinates" -> List(<<Num(1150), Num(-320), Num(100)>>)]

Without(rec, path) == [p \in (DOMAIN rec) \ {path} |-> rec[p]]

With(rec, path, value) == [p \in DOMAIN rec |-> IF p = path THEN value ELSE rec[p]]

MagValues == {Num(55), Str("5.5"), Str("abc"), Null}

CoordValues ==
  {List(<<Num(1150), Num(-320), Num(100)>>),
   List(<<Num(1150), Num(-320), Num(500)>>),
   List(<<Str("abc"), Num(-320), Str("10")>>),
   List(<<Num(1150), Num(-320), Str("deep")>>),
   List(<<Num(1150), Num(-320)>>),
   List(<<>>)}

\* A record has every path, or lacks one of them.
Records ==
  LET valued == {With(With(FullRecord, "properties.mag", m),
                      "geometry.coordinates", c) :
                   m \in MagValues, c \in CoordValues}
  IN  valued \cup {Without(FullRecord, p) : p \in Range(keep)}

RECURSIVE SeqsUpTo(_, _)
SeqsUpTo(S, n) ==
  IF n = 0 THEN {<<>>}
  ELSE SeqsUpTo(S, n - 1)
         \cup {Append(q, x) : q \in {r \in SeqsUpTo(S, n - 1) : Len(r) = n - 1}, x \in S}

Payloads ==
  {EmptyDict} \cup {[k \in {"features"} |-> f] : f \in SeqsUpTo(Records, MaxFeatures)}

\* What the feed answers in the session runs.
UpstreamPayloads ==
  {[k \in {"features"} |-> <<FullRecord>>],
   [k \in {"features"} |-> <<Without(FullRecord, "geometry.coordinates")>>]}

Upstreams ==
  {[ok |-> TRUE, geo |-> g] : g \in UpstreamPayloads}
    \cup {[ok |-> FALSE, geo |-> EmptyDict]}

---------------------------------------------------------------------------
(* clean_earthquakes on the payloads and depth ranges of the session runs,  *)
(* evaluated once                                                          *)

SessionTables ==
  [g \in UpstreamPayloads,
   d \in {<<w.mindepth, w.maxdepth>> : w \in SessionWidgets} |->
     clean_earthquakes(g, d[1], d[2])]

---------------------------------------------------------------------------
(* The session state and the render cycle: main, render_front_page,        *)
(* render_main_app (lines 151-170, 327-362)                                *)

\* st.session_state[key] = value
SetItem(ss, key, value) ==
  [k \in (DOMAIN ss) \cup {key} |-> IF k = key THEN value ELSE ss[k]]

\* What one script run did: the page, the button that was pressed, the
\* buttons it rendered, whether it ended in st.rerun(), the parameters it
\* built, the fetch (called, request issued, payload received), the
\* message of st.error and the tables handed to the three tabs.
IdleCycle ==
  [page |-> "none", click |-> "none", buttons |-> {}, rerun |-> FALSE,
   params |-> <<>>, attempted |-> FALSE,
   requested |-> FALSE, received |-> <<>>, error |-> "", rendered |-> <<>>]

\* A first run that creates the flag as True.
EnsureFlag_dashboard(ss) ==
  IF "show_dashboard" \in DOMAIN ss THEN ss
  ELSE SetItem(ss, "show_dashboard", TRUE)

\* Lines 356-357: the flag is created on the first run.
EnsureFlag(ss) ==
  IF "show_dashboard" \in DOMAIN ss THEN ss
  ELSE SetItem(ss, "show_dashboard", FALSE)

\* Lines 338-350: the cached table goes to the three tabs.
RenderTabs(ss) ==
  <<[tab |-> "render_interactive", df |-> ss["df_cache"]],
    [tab |-> "render_visuals", df |-> ss["df_cache"]],
    [tab |-> "render_exploration", df |-> ss["df_cache"]]>>

\* An except branch that reports the failure and goes on to the tabs.
OnFetchError_nostop(ss, e) ==
  [session_state |-> ss, error |-> e,
   rendered |-> IF "df_cache" \in DOMAIN ss THEN RenderTabs(ss) ELSE <<>>]

\* Lines 334-336: st.error, then st.stop() ends the run.
OnFetchError(ss, e) == [session_state |-> ss, error |-> e, rendered |-> <<>>]

\* A try block that records the parameters before it fetches.
FetchAndStore_early(ss, query_params, sb, fetched) ==
  IF ~fetched.ok
    THEN OnFetchError(SetItem(ss, "q_cache", query_params), "RequestException")
  ELSE LET cleaned == SessionTables[fetched.geo, <<sb.mindepth, sb.maxdepth>>]
       IN  IF ~cleaned.ok
             THEN OnFetchError(SetItem(ss, "q_cache", query_params), cleaned.error)
           ELSE LET stored == SetItem(SetItem(ss, "q_cache", query_params),
                                      "df_cache", cleaned.df)
                IN  [session_state |-> stored, error |-> "",
                     rendered |-> RenderTabs(stored)]

\* Lines 330-350 once the fetch has answered (fetched = [ok, geo]): the
\* table and then the parameters are stored, or the except branch runs.
FetchAndStore(ss, query_params, sb, fetched) ==
  IF ~fetched.ok THEN OnFetchError(ss, "RequestException")
  ELSE LET cleaned == SessionTables[fetched.geo, <<sb.mindepth, sb.maxdepth>>]
       IN  IF ~cleaned.ok THEN OnFetchError(ss, cleaned.error)
           ELSE LET stored == SetItem(SetItem(ss, "df_cache", cleaned.df),
                                      "q_cache", query_params)
                IN  [session_state |-> stored, error |-> "",
                     rendered |-> RenderTabs(stored)]

\* A condition that takes a cached table without rows for no table.
NeedsFetch_empty(ss, run_btn) ==
  IF run_btn \/ "df_cache" \notin DOMAIN ss THEN TRUE
  ELSE ss["df_cache"].rows = <<>>

\* A condition that fetches on every run.
NeedsFetch_always(ss, run_btn) == TRUE

\* Line 329
NeedsFetch(ss, run_btn) == run_btn \/ "df_cache" \notin DOMAIN ss

---------------------------------------------------------------------------
(* The session: one action per script run *)

Init ==
  /\ session_state = EmptyDict
  /\ fetch_cache = {}
  /\ now = 0
  /\ ticks = 0
  /\ requests = 0
  /\ cycle = IdleCycle
  /\ args = <<>>
  /\ ret = <<>>

\* The buttons the user can press: those the last run rendered, and none
\* when that run ended in st.rerun() (the next run starts by itself).
CanClick(button) == ~cycle.rerun /\ button \in cycle.buttons

\* The widget values a run can find: the defaults when the last run did not
\* render the sidebar (a new page), any selection the user made otherwise.
CanHold(w) == w = DefaultWidgets \/ "fetch" \in cycle.buttons

\* Time passes between runs.
Tick(d) ==
  /\ ticks < MaxTicks
  /\ now' = now + d
  /\ ticks' = ticks + 1
  /\ UNCHANGED <<session_state, fetch_cache, requests, cycle, args, ret>>

\* main() with the flag unset or False: render_front_page.
FrontPage(click) ==
  /\ EnsureFlag(session_state)["show_dashboard"] = FALSE
  /\ click = "none" \/ CanClick(click)
  /\ session_state' =
       IF click = "go" THEN SetItem(EnsureFlag(session_state), "show_dashboard", TRUE)
       ELSE EnsureFlag(session_state)
  /\ cycle' = [IdleCycle EXCEPT !.page = "front", !.click = click,
                                !.buttons = {"go"}, !.rerun = (click = "go")]
  /\ UNCHANGED <<fetch_cache, now, ticks, requests, args, ret>>

\* main() with the flag True, "Back to Front Page" pressed: lines 168-170.
DashboardBack ==
  /\ EnsureFlag(session_state)["show_dashboard"] = TRUE
  /\ CanClick("back")
  /\ session_state' = SetItem(session_state, "show_dashboard", FALSE)
  /\ cycle' = [IdleCycle EXCEPT !.page = "dashboard", !.click = "back",
                                !.buttons = {"back"}, !.rerun = TRUE]
  /\ UNCHANGED <<fetch_cache, now, ticks, requests, args, ret>>

\* main() with the flag True and no fetch due: the tabs show the cached table.
DashboardCached(w, usec) ==
  LET sb == Sidebar(w, [sec |-> now, usec |-> usec])
  IN  /\ EnsureFlag(session_state)["show_dashboard"] = TRUE
      /\ CanHold(w)
      /\ ~NeedsFetch(session_state, FALSE)
      /\ cycle' = [IdleCycle EXCEPT !.page = "dashboard",
                                    !.buttons = {"back", "fetch"},
                                    !.params = <<build_query_params(sb)>>,
                                    !.rendered = RenderTabs(session_state)]
      /\ UNCHANGED <<session_state, fetch_cache, now, ticks, requests, args, ret>>

\* main() with the flag True and a fetch due ("Fetch data" pressed, or no
\* table cached): lines 328-350.
DashboardFetch(w, usec, click, upstream) ==
  LET sb           == Sidebar(w, [sec |-> now, usec |-> usec])
      query_params == build_query_params(sb)
      fetched      == fetch_usgs_geojson(fetch_cache, query_params, now, upstream)
      done         == FetchAndStore(session_state, query_params, sb, fetched)
  IN  /\ EnsureFlag(session_state)["show_dashboard"] = TRUE
      /\ click = "none" \/ CanClick(click)
      /\ CanHold(w)
      /\ NeedsFetch(session_state, click = "fetch")
      /\ fetched.requested => requests < MaxRequests
      /\ session_state' = done.session_state
      /\ fetch_cache' = fetched.cache
      /\ requests' = IF fetched.requested THEN requests + 1 ELSE requests
      /\ cycle' = [IdleCycle EXCEPT !.page = "dashboard", !.click = click,
                                    !.buttons = {"back", "fetch"},
                                    !.params = <<query_params>>,
                                    !.attempted = TRUE,
                                    !.requested = fetched.requested,
                                    !.received = IF fetched.ok THEN <<fetched.geo>>
                                                 ELSE <<>>,
                                    !.error = done.error,
                                    !.rendered = done.rendered]
      /\ UNCHANGED <<now, ticks, args, ret>>

Next ==
  \/ \E d \in {1, TTL} : Tick(d)
  \/ \E click \in {"none", "go"} : FrontPage(click)
  \/ DashboardBack
  \/ \E w \in SessionWidgets, usec \in SessionUsecs : DashboardCached(w, usec)
  \/ \E w \in SessionWidgets, usec \in SessionUsecs, click \in {"none", "fetch"},
        upstream \in Upstreams : DashboardFetch(w, usec, click, upstream)

Spec == Init /\ [][Next]_vars

---------------------------------------------------------------------------
(* build_query_params as a function of the widgets *)

\* The session states a run can find when it builds the parameters: a new
\* session, and a dashboard session with a table and its parameters cached.
BuildSessions ==
  {EmptyDict,
   [k \in {"show_dashboard", "df_cache", "q_cache"} |->
      CASE k = "show_dashboard" -> TRUE
        [] k = "df_cache" ->
             clean_earthquakes([f \in {"features"} |-> <<FullRecord>>], 0, 7000).df
        [] k = "q_cache" ->
             build_query_params(Sidebar(DefaultWidgets, [sec |-> 0, usec |-> 0]))]}

InitBuild ==
  /\ session_state \in BuildSessions
  /\ fetch_cache = {}
  /\ now = 0
  /\ ticks = 0
  /\ requests = 0
  /\ cycle = IdleCycle
  /\ args \in {[fn |-> "build_query_params", w |-> w,
                now_utc |-> [sec |-> s, usec |-> u]] :
                 w \in Widgets, s \in {1700000000}, u \in Usecs}
  /\ ret = <<>>

CallBuild ==
  /\ ret = <<>>
  /\ ret' = <<build_query_params(Sidebar(args.w, args.now_utc))>>
  /\ UNCHANGED <<session_state, fetch_cache, now, ticks, requests, cycle, args>>

NextBuild == CallBuild

SpecBuild == InitBuild /\ [][NextBuild]_vars

---------------------------------------------------------------------------
(* clean_earthquakes as a function of the payload and the depth slider *)

InitClean ==
  /\ session_state = EmptyDict
  /\ fetch_cache = {}
  /\ now = 0
  /\ ticks = 0
  /\ requests = 0
  /\ cycle = IdleCycle
  /\ args \in {[fn |-> "clean_earthquakes", geojson |-> g,
                mindepth |-> dr[1], maxdepth |-> dr[2]] :
                 g \in Payloads, dr \in DepthRanges}
  /\ ret = <<>>

CallClean ==
  /\ ret = <<>>
  /\ ret' = <<clean_earthquakes(args.geojson, args.mindepth, args.maxdepth)>>
  /\ UNCHANGED <<session_state, fetch_cache, now, ticks, requests, cycle, args>>

NextClean == CallClean

SpecClean == InitClean /\ [][NextClean]_vars

---------------------------------------------------------------------------
(* Properties of build_query_params (SpecBuild) *)

Built == ret # <<>> /\ args.fn = "build_query_params"

RegionKeys(q) == (DOMAIN q) \cap (BBoxKeys \cup CircleKeys)

GroupOf(region_mode) ==
  CASE region_mode = "Bounding box"      -> BBoxKeys
    [] region_mode = "Radius from point" -> CircleKeys
    [] OTHER                             -> {}

\* C1: whatever the sidebar holds, the built parameters carry exactly one
\* region group, whole: no region key (Global), the four bounding-box keys
\* (Bounding box) or the three circle keys (Radius from point).
C1_RegionExclusive ==
  Built =>
    /\ RegionKeys(ret[1]) \in {{}, BBoxKeys, CircleKeys}
    /\ RegionKeys(ret[1]) = GroupOf(args.w.region_mode)

C1_Witness ==
  /\ Built
  /\ args.w.region_mode = "Bounding box"
  /\ RegionKeys(ret[1]) = BBoxKeys

\* C2: the keys of the built parameters are the seven base keys plus the
\* keys of the active region group and nothing else; mindepth and maxdepth
\* are never among them, whatever the depth slider holds.
C2_KeySet ==
  Built =>
    /\ DOMAIN ret[1] = BaseKeys \cup GroupOf(args.w.region_mode)
    /\ (DOMAIN ret[1]) \cap DepthKeys = {}
    /\ Cardinality(DOMAIN ret[1]) = 7 + Cardinality(GroupOf(args.w.region_mode))

C2_Witness ==
  /\ Built
  /\ args.w.region_mode = "Global"
  /\ args.w.mindepth = 400
  /\ DOMAIN ret[1] = BaseKeys

---------------------------------------------------------------------------
(* Properties of clean_earthquakes (SpecClean) *)

Cleaned == ret # <<>> /\ args.fn = "clean_earthquakes"

Feats == GetFeatures(args.geojson)

\* The leaf paths some record of the payload has.
PathsPresent == UNION {DOMAIN Feats[i] : i \in DOMAIN Feats}

\* The output column of an optional leaf path.
OptionalColumns ==
  [c \in {"id", "properties.place", "properties.type", "properties.alert",
          "properties.url"} |->
     IF c = "id" THEN "id" ELSE renames[c]]

C4_EmptyHasDepthKm ==
  (Cleaned /\ Feats = <<>>) =>
    /\ ret[1].ok
    /\ ret[1].df.rows = <<>>
    /\ ret[1].df.columns =
         <<"time", "place", "magnitude", "depth_km", "lat", "lon",
           "event_type", "alert_level", "url", "id">>

\* C4, amended: a payload without records (features missing or empty) is
\* a normal result with zero rows and the ten columns time, place,
\* magnitude, depth, lat, lon, event_type, alert_level, url, id: the depth
\* column is named depth.
C4_EmptyPayloadTable ==
  (Cleaned /\ Feats = <<>>) =>
    /\ ret[1].ok
    /\ ret[1].df.rows = <<>>
    /\ ret[1].df.columns =
         <<"time", "place", "magnitude", "depth", "lat", "lon",
           "event_type", "alert_level", "url", "id">>

C4_Witness ==
  /\ Cleaned
  /\ "features" \notin DOMAIN args.geojson
  /\ ret[1].ok
  /\ Len(ret[1].df.columns) = 10

\* The depth of record i after coercion: the third coordinate when it is a
\* number or a numeric text, null otherwise (no third coordinate, a text
\* that is no number, or a coordinate column that was not split because
\* the first record has no geometry).
CoercedDepth(i) ==
  LET f == Feats[i]
  IN  IF \E j \in DOMAIN Feats : "geometry.coordinates" \notin DOMAIN Feats[j]
        THEN Null
      ELSE IF Len(f["geometry.coordinates"].l) < 3 THEN Null
      ELSE LET d == f["geometry.coordinates"].l[3]
           IN  CASE d.t = "num" -> d
                 [] d.t = "str" /\ d.s = "10" -> Num(100)
                 [] OTHER -> Null

PassesDepth(i) ==
  \/ CoercedDepth(i) = Null
  \/ /\ args.mindepth <= CoercedDepth(i).n
     /\ CoercedDepth(i).n <= args.maxdepth

\* The index labels of the output rows, in output order.
OutIndex == [k \in DOMAIN ret[1].df.rows |-> ret[1].df.rows[k].index]

Uncoercible(v) == v.t = "str" /\ v.s \notin {"5.5", "10"}

\* The payload lacks what the steps before the coercion read: a record
\* list in which time, magnitude or the coordinates occur in no record, or
\* a record without coordinates after a first record that has them.
StructuralGap ==
  \/ \E p \in {"properties.time", "properties.mag", "geometry.coordinates"} :
       p \notin PathsPresent
  \/ /\ "geometry.coordinates" \in DOMAIN Feats[1]
     /\ \E j \in DOMAIN Feats : "geometry.coordinates" \notin DOMAIN Feats[j]

\* C6: a magnitude, depth, latitude or longitude that cannot be coerced
\* makes normalization neither raise nor drop the row: a raise comes only
\* from a structural gap of the payload, and in a returned table every
\* record that passes the depth filter has its row, with null in each
\* field whose value could not be coerced.
C6_CoercionTolerance ==
  (Cleaned /\ Feats # <<>>) =>
    /\ ~ret[1].ok => StructuralGap
    /\ ret[1].ok =>
         \A i \in DOMAIN Feats :
           /\ PassesDepth(i) => (i - 1) \in Range(OutIndex)
           /\ \A k \in DOMAIN OutIndex :
                OutIndex[k] = i - 1 =>
                  /\ ("properties.mag" \in DOMAIN Feats[i]
                        /\ Uncoercible(Feats[i]["properties.mag"]))
                       => ret[1].df.rows[k].cells["magnitude"] = Null
                  /\ \A c \in 1..3 :
                       ("geometry.coordinates" \in DOMAIN Feats[i]
                          /\ c <= Len(Feats[i]["geometry.coordinates"].l)
                          /\ Uncoercible(Feats[i]["geometry.coordinates"].l[c]))
                       => ret[1].df.rows[k].cells[<<"lon", "lat", "depth">>[c]] = Null

C6_Witness ==
  /\ Cleaned
  /\ ret[1].ok
  /\ Len(Feats) = 2
  /\ \A i \in 1..2 : "properties.mag" \in DOMAIN Feats[i]
  /\ Uncoercible(Feats[1]["properties.mag"])
  /\ ~Uncoercible(Feats[2]["properties.mag"])
  /\ OutIndex = <<0, 1>>
  /\ ret[1].df.rows[1].cells["magnitude"] = Null
  /\ ret[1].df.rows[2].cells["magnitude"] = Num(55)

\* C7 as stated: a record without geometry, or with fewer than three
\* coordinates, never makes clean_earthquakes raise; its row is emitted
\* with null in the missing lon/lat/depth fields.
C7_MissingGeometryTolerated ==
  (Cleaned /\ Feats # <<>>
     /\ \A p \in {"properties.time", "properties.mag"} : p \in PathsPresent) =>
    \A i \in DOMAIN Feats :
      LET short == IF "geometry.coordinates" \in DOMAIN Feats[i]
                     THEN Len(Feats[i]["geometry.coordinates"].l) ELSE 0
      IN  short < 3 =>
            /\ ret[1].ok
            /\ \E k \in DOMAIN OutIndex :
                 /\ OutIndex[k] = i - 1
                 /\ \A c \in (short + 1)..3 :
                      ret[1].df.rows[k].cells[<<"lon", "lat", "depth">>[c]] = Null

---------------------------------------------------------------------------
(* Properties of the render cycle (Spec) *)

\* The cached table and its recorded parameters, as far as they exist.
Cached(ss) == [k \in (DOMAIN ss) \cap {"df_cache", "q_cache"} |-> ss[k]]

\* The last run called the fetch and the fetch or the normalization raised.
FetchFailed ==
  cycle.attempted /\ (cycle.received = <<>> \/ cycle.error # "")

\* C8: a run whose fetch or normalization raises leaves the cached table
\* and the recorded parameters exactly as they were: nothing new is
\* stored, and where nothing was cached nothing is cached afterwards.
C8_FailedCycleKeepsCache ==
  [][(cycle'.attempted /\ (cycle'.received = <<>> \/ cycle'.error # ""))
       => Cached(session_state') = Cached(session_state)]_vars

C8_Witness ==
  /\ FetchFailed
  /\ cycle.received # <<>>
  /\ cycle.error = "KeyError"
  /\ "df_cache" \in DOMAIN session_state
  /\ session_state["q_cache"] # cycle.params[1]

\* C9: in a run whose fetch failed the failure is shown and the run halts:
\* none of the three tabs is rendered, not even on a table cached earlier.
C9_FailedCycleHalts ==
  FetchFailed =>
    /\ cycle.page = "dashboard"
    /\ cycle.error # ""
    /\ cycle.rendered = <<>>

C9_Witness ==
  /\ FetchFailed
  /\ cycle.click = "fetch"
  /\ cycle.received = <<>>
  /\ "df_cache" \in DOMAIN session_state
  /\ cycle.rendered = <<>>

\* C10: the cached table and its recorded parameters change only in a run
\* whose fetch succeeded, which records the parameters it sent and renders
\* the table it stored; a dashboard run without "Fetch data" that finds a
\* table cached leaves both unchanged, whatever the sidebar holds, and
\* renders that table (ticks' = ticks: the step is a run, not the clock).
C10_CacheHeldUntilFetch ==
  [][/\ Cached(session_state') # Cached(session_state)
          => /\ cycle'.attempted
             /\ cycle'.error = ""
             /\ DOMAIN Cached(session_state') = {"df_cache", "q_cache"}
     /\ (cycle'.attempted /\ cycle'.error = "")
          => /\ session_state'["q_cache"] = cycle'.params[1]
             /\ cycle'.rendered = RenderTabs(session_state')
     /\ (ticks' = ticks /\ cycle'.page = "dashboard" /\ cycle'.click = "none"
           /\ "df_cache" \in DOMAIN session_state)
          => /\ Cached(session_state') = Cached(session_state)
             /\ ~cycle'.attempted
             /\ cycle'.rendered = RenderTabs(session_state)]_vars

C10_Witness ==
  /\ cycle.page = "dashboard"
  /\ cycle.click = "none"
  /\ ~cycle.attempted
  /\ cycle.rendered = RenderTabs(session_state)
  /\ cycle.params # <<>>
  /\ session_state["q_cache"] # cycle.params[1]

---------------------------------------------------------------------------
(* Properties of the result cache (Spec) *)

\* The step is a script run that called the fetch.
FetchRun == ticks' = ticks /\ cycle'.attempted

\* The entries of the result cache that were stored for the parameters of
\* the run less than 60 seconds before it.
StoredWithinWindow ==
  {e \in fetch_cache : e.params = cycle'.params[1] /\ now - e.stored < 60}

\* The run replaced the cached table by the normalization of the payload
\* it received.
TableReplaced ==
  /\ "df_cache" \in DOMAIN session_state'
  /\ \E dr \in DepthRanges :
       LET cleaned == clean_earthquakes(cycle'.received[1], dr[1], dr[2])
       IN  cleaned.ok /\ session_state'["df_cache"] = cleaned.df

\* C11 as stated: the cache answers instead of the feed only when the same
\* parameters were fetched successfully within the last 60 seconds and the
\* run was not triggered by "Fetch data"; a fetch with other parameters, a
\* fetch after the window and a fetch triggered by "Fetch data" each issue
\* a request, and the result of a run that ends without error replaces the
\* cached table.
C11_ExplicitFetchRequests ==
  [][FetchRun =>
       /\ ~cycle'.requested
            <=> (StoredWithinWindow # {} /\ cycle'.click # "fetch")
       /\ (cycle'.requested /\ cycle'.error = "") => TableReplaced]_vars

\* C11, amended: the cache answers instead of the feed exactly when the
\* same parameters were fetched successfully less than 60 seconds before,
\* also in a run triggered by "Fetch data"; a fetch with other parameters
\* and a fetch after the window each issue a request.  Only a successful
\* request changes the result cache: its payload becomes the one entry of
\* its parameters.  The payload a run received, from the feed or from the
\* cache, replaces the cached table when its normalization succeeds.
C11_CacheSuppression ==
  [][/\ FetchRun =>
          /\ ~cycle'.requested <=> StoredWithinWindow # {}
          /\ ~cycle'.requested =>
               /\ cycle'.received \in {<<e.geo>> : e \in StoredWithinWindow}
               /\ fetch_cache' = fetch_cache
          /\ (cycle'.requested /\ cycle'.received = <<>>) =>
               fetch_cache' = fetch_cache
          /\ (cycle'.requested /\ cycle'.received # <<>>) =>
               fetch_cache' =
                 {e \in fetch_cache : e.params # cycle'.params[1]}
                   \cup {[params |-> cycle'.params[1],
                          geo |-> cycle'.received[1], stored |-> now]}
          /\ (cycle'.received # <<>> /\ cycle'.error = "") => TableReplaced
     /\ ~FetchRun => fetch_cache' = fetch_cache]_vars

\* "Fetch data" was pressed and the cache answered: no request was issued
\* and the table was stored from the cached payload.
C11_Witness ==
  /\ cycle.attempted
  /\ cycle.click = "fetch"
  /\ ~cycle.requested
  /\ cycle.received # <<>>
  /\ cycle.error = ""
  /\ session_state["q_cache"] = cycle.params[1]
  /\ \E e \in fetch_cache : e.params = cycle.params[1] /\ e.geo = cycle.received[1]

---------------------------------------------------------------------------
(* Further properties of build_query_params (SpecBuild) *)

\* The four ordering tags of the feed.
OrderTags == {"time", "time-asc", "magnitude", "magnitude-asc"}

C13_LimitUnchanged ==
  Built =>
    /\ args.w.limit \in 1..20000
    /\ ret[1]["limit"] = Num(args.w.limit)
    /\ \A e \in LimitEntries :
         /\ e \in 1..20000 => e \in LimitValues
         /\ e \notin 1..20000 => e \notin LimitValues
    /\ {1, 20000} \subseteq LimitValues

C13_Witness ==
  /\ Built
  /\ args.w.limit = 20000
  /\ ret[1]["limit"] = Num(20000)

\* The widget values that describe the same query filter as w: they differ
\* from w at most in the depth slider, in the region widgets of the modes
\* that are not chosen and in the dates of a window that is not "Custom
\* dates".
SameFilter(w) ==
  {[w EXCEPT !.mindepth = dr[1], !.maxdepth = dr[2], !.minlat = ml,
             !.lat0 = l0, !.start_date = sd] :
     dr \in DepthRanges,
     ml \in IF w.region_mode = "Bounding box" THEN {w.minlat} ELSE {-600, 700},
     l0 \in IF w.region_mode = "Radius from point" THEN {w.lat0} ELSE {-320, 0},
     sd \in IF w.window_label = "Custom dates" THEN {w.start_date} ELSE {-1, 0}}

\* C15: the call of build_query_params changes nothing but its result,
\* and the result is the one of every call with the same time window,
\* magnitude bounds, region mode and region values, ordering and limit,
\* whatever the depth slider, the other region widgets and the session
\* (new, or with a table and parameters cached) are.
C15_PureBuilder ==
  [][ret' # ret =>
       /\ session_state' = session_state
       /\ fetch_cache' = fetch_cache
       /\ args' = args
       /\ \A v \in SameFilter(args.w) :
            build_query_params(Sidebar(v, args.now_utc)) = ret'[1]]_vars

C15_Witness ==
  /\ Built
  /\ "df_cache" \in DOMAIN session_state
  /\ args.w.mindepth = 400
  /\ args.w.region_mode = "Global"
  /\ args.w.minlat = 700
  /\ DOMAIN ret[1] = BaseKeys
  /\ ret[1] # session_state["q_cache"]

---------------------------------------------------------------------------
(* Further properties of clean_earthquakes (SpecClean) *)

\* Record i has a timestamp, a magnitude that is a number or null, and
\* three numeric coordinates of which the third lies within the depth
\* bounds of the call.
TripleInBounds(i) ==
  LET f == Feats[i]
  IN  /\ {"properties.time", "properties.mag", "geometry.coordinates"}
           \subseteq DOMAIN f
      /\ f["properties.mag"].t \in {"num", "null"}
      /\ f["geometry.coordinates"].t = "list"
      /\ Len(f["geometry.coordinates"].l) = 3
      /\ \A c \in 1..3 : f["geometry.coordinates"].l[c].t = "num"
      /\ args.mindepth <= f["geometry.coordinates"].l[3].n
      /\ f["geometry.coordinates"].l[3].n <= args.maxdepth

\* Row k of the output carries record i: the coordinates by position and
\* each property the record has under its output name.
CarriesRecord(k, i) ==
  LET f     == Feats[i]
      cells == ret[1].df.rows[k].cells
  IN  /\ cells["lon"] = f["geometry.coordinates"].l[1]
      /\ cells["lat"] = f["geometry.coordinates"].l[2]
      /\ cells["depth"] = f["geometry.coordinates"].l[3]
      /\ cells["magnitude"] = f["properties.mag"]
      /\ \A p \in (DOMAIN OptionalColumns) \cap (DOMAIN f) :
           cells[OptionalColumns[p]] = f[p]

\* C14 as stated: a record with coordinates [c0, c1, c2] and depth bounds
\* that include c2 has exactly one row in the output, with lon = c0,
\* lat = c1, depth = c2 and its properties under their output names
\* (read for records with a timestamp and a numeric or null magnitude).
C14_PositionalUnpack ==
  (Cleaned /\ Feats # <<>>) =>
    \A i \in DOMAIN Feats :
      TripleInBounds(i) =>
        /\ ret[1].ok
        /\ Cardinality({k \in DOMAIN OutIndex : OutIndex[k] = i - 1}) = 1
        /\ \A k \in DOMAIN OutIndex : OutIndex[k] = i - 1 => CarriesRecord(k, i)

---------------------------------------------------------------------------
(* Further properties of the render cycle (Spec) *)

\* The step is a script run (the clock stands still during a run).
ScriptRun == ticks' = ticks

\* The run rendered the dashboard: render_main_app went past the "Back to
\* Front Page" button.
DashboardRendered == cycle'.page = "dashboard" /\ cycle'.click # "back"

\* C16: a script run calls the fetch at most once and issues at most one
\* request, also when the request fails; a run that renders the dashboard
\* calls the fetch exactly when "Fetch data" was pressed or no table is
\* cached, and no other run calls it.  A failed fetch with no table cached
\* leaves no table, so the next dashboard run fetches again by itself;
\* with a table cached only "Fetch data" causes a fetch.
C16_FetchExactlyWhenDue ==
  [][/\ requests' \in {requests, requests + 1}
     /\ requests' = requests + 1 <=> (ScriptRun /\ cycle'.requested)
     /\ ScriptRun =>
          /\ cycle'.requested => cycle'.attempted
          /\ DashboardRendered =>
               (cycle'.attempted
                  <=> (cycle'.click = "fetch"
                         \/ "df_cache" \notin DOMAIN session_state))
          /\ ~DashboardRendered => ~cycle'.attempted
          /\ (cycle'.attempted /\ cycle'.error # ""
                /\ "df_cache" \notin DOMAIN session_state)
               => "df_cache" \notin DOMAIN session_state']_vars

\* A second fetch without "Fetch data" pressed: the first one failed and
\* left no table.
C16_Witness ==
  /\ cycle.attempted
  /\ cycle.click = "none"
  /\ cycle.requested
  /\ requests = 2
  /\ fetch_cache = {}
  /\ cycle.error # ""
  /\ "df_cache" \notin DOMAIN session_state

\* st.session_state.show_dashboard, False while it is not set.
ShowDashboard(ss) == "show_dashboard" \in DOMAIN ss /\ ss["show_dashboard"]

\* C17: the first run shows the front page; a front-page run calls no
\* fetch, issues no request and leaves the cached table, the recorded
\* parameters and the result cache as they are; the dashboard flag is set
\* only by "Go to Dashboard" on the front page and cleared only by "Back
\* to Front Page" on the dashboard, and the page of a run is the one the
\* flag names; the tabs are rendered only by a dashboard run, on the
\* table cached at its end, and a dashboard run that finds a table cached
\* and no button pressed renders that table without a fetch.
C17_PageSwitching ==
  [][ScriptRun =>
       /\ cycle.page = "none" => cycle'.page = "front"
       /\ cycle'.page = (IF ShowDashboard(session_state) THEN "dashboard"
                         ELSE "front")
       /\ cycle'.page = "front" =>
            /\ ~cycle'.attempted
            /\ requests' = requests
            /\ fetch_cache' = fetch_cache
            /\ Cached(session_state') = Cached(session_state)
            /\ cycle'.rendered = <<>>
       /\ (ShowDashboard(session_state') /\ ~ShowDashboard(session_state))
            <=> (cycle'.page = "front" /\ cycle'.click = "go")
       /\ (~ShowDashboard(session_state') /\ ShowDashboard(session_state))
            <=> (cycle'.page = "dashboard" /\ cycle'.click = "back")
       /\ cycle'.rendered # <<>> =>
            /\ cycle'.page = "dashboard"
            /\ "df_cache" \in DOMAIN session_state'
            /\ cycle'.rendered = RenderTabs(session_state')
       /\ (cycle'.page = "dashboard" /\ cycle'.click = "none"
             /\ "df_cache" \in DOMAIN session_state)
            => /\ ~cycle'.attempted
               /\ requests' = requests
               /\ cycle'.rendered = RenderTabs(session_state)]_vars

\* Back on the front page with a table cached, "Go to Dashboard" pressed:
\* the table is still there and the run fetched nothing.
C17_Witness ==
  /\ cycle.page = "front"
  /\ cycle.click = "go"
  /\ ShowDashboard(session_state)
  /\ "df_cache" \in DOMAIN session_state
  /\ ~cycle.attempted
  /\ requests = 1

=============================================================================
